---- MODULE Spec2Model ----
(***************************************************************************)
(* The simulation kernel of src/src/game.rs (the GameBundle plugin): the   *)
(* entities of the startup placement, the overlap index, the progress      *)
(* integrator, the placement of the hands, the grab state machine, the     *)
(* observers on Active and the Game state.  One step of the model is one   *)
(* frame of the application.                                               *)
(*                                                                         *)
(* Numbers.  Lengths are integers on the coarsest grid on which every      *)
(* length of the program is whole (Grid).  An angle is a whole number of   *)
(* steps of a revolution, Steps steps to the turn, and Progress is kept    *)
(* in the same steps (Progress 1.0 is Steps).  Speed is kept doubled       *)
(* (Speed 0.5 is 1) with its sign bit apart, as f32 keeps it, and the      *)
(* frame time is a whole number of units of 2/Steps seconds, so that       *)
(* every product of the integrator is a whole number of steps.             *)
(***************************************************************************)
EXTENDS Integers, Sequences, FiniteSets, TLC

\* ------------------------------------------------------------------ bounds
\* The longest frame time, in units of 2/Steps seconds.
MaxDt == 1
\* Frames are not taken once a Progress would fall below -MaxNeg steps.
MaxNeg == 2
\* Frames in which the grab state machine sees a grab edge are not taken
\* once it has seen MaxGrabs of them.
MaxGrabs == 5

\* --------------------------------------------------------------- constants
RADIUS_CYCLE == 192
SPACING_CYCLE == 64
HAND_RADIUS == 64
FINISH_RADIUS == 64
ITEM_RADIUS == 40
\* lerp(.., 0.03) of system_lerp_item_to_holding, in percent
LERP_PERCENT == 3

RECURSIVE Gcd(_, _)
Gcd(a, b) == IF b = 0 THEN a ELSE Gcd(b, a % b)

\* The grid: the greatest length that divides every length of the program.
Grid ==
    Gcd(Gcd(RADIUS_CYCLE, SPACING_CYCLE), Gcd(Gcd(HAND_RADIUS, FINISH_RADIUS), ITEM_RADIUS))

\* cos of k/Steps of a turn, times 1000, for k = 0 .. Steps-1.
CosTable ==
    << 1000, 707, 0, -707, -1000, -707, 0, 707 >>

Steps == Len(CosTable)

\* n / d rounded to the nearest integer (d > 0).
RoundDiv(n, d) ==
    IF n >= 0 THEN (2 * n + d) \div (2 * d) ELSE -((2 * (-n) + d) \div (2 * d))

Cos(p) == CosTable[(p % Steps) + 1]
Sin(p) == CosTable[((p - Steps \div 4) % Steps) + 1]

\* ---------------------------------------------------------------- entities
Hands == {"hand1", "hand2", "hand3", "hand4"}
FinishE == "finish"
ItemE == "baton"
NoEntity == "none"

\* the entities that take part in the overlap index and the grab state
\* machine (a Cycle carries no Collision and enters only as a hand's parent)
Entities == Hands \cup {FinishE, ItemE}

\* the components that never move
CanHold == Hands \cup {FinishE}
Finish == {FinishE}
Item == {ItemE}
HasCollision == Entities
HasProgress == Hands
\* The Finish entity spawned without Speed(0.): the hands alone have Speed.
HasSpeed_HandsOnly == Hands

HasSpeed == Hands \cup {FinishE}

\* The placement list of system_setup_entities: x in halves of the
\* conversion length, Speed doubled.
PlaceX2 ==
    [e \in HasCollision |->
        CASE e = ItemE -> -1
          [] e = "hand1" -> 0
          [] e = "hand2" -> 2
          [] e = "hand3" -> 4
          [] e = "hand4" -> 6
          [] e = FinishE -> 7]

PlaceSpeed2 ==
    [e \in HasSpeed |->
        CASE e = "hand1" -> 1
          [] e = "hand2" -> 2
          [] e = "hand3" -> 3
          [] e = "hand4" -> 4
          [] e = FinishE -> 0]

CycleStart == "hand1"

\* RADIUS_CYCLE * 2. + SPACING_CYCLE, on the grid
Conversion == (RADIUS_CYCLE * 2 + SPACING_CYCLE) \div Grid

\* World position of a placement: position * conversion.
PlacePos(e) == << (PlaceX2[e] * Conversion) \div 2, 0 >>

\* Radius(RADIUS_CYCLE) of a CycleBundle, on the grid
CycleRadius == RADIUS_CYCLE \div Grid

CollisionRadius(e) ==
    CASE e \in Hands -> HAND_RADIUS \div Grid
      [] e = FinishE -> FINISH_RADIUS \div Grid
      [] e = ItemE -> ITEM_RADIUS \div Grid

Add(a, b) == << a[1] + b[1], a[2] + b[2] >>
Sub(a, b) == << a[1] - b[1], a[2] - b[2] >>
Zero == << 0, 0 >>

Events == {"Drop", "Grab", "GrabEmpty", "HandOver"}

\* Holding is absent, Holding(None) or Holding(Some(entity)).
Absent == "absent"
HoldingNone == "None"

VARIABLES
    state,            \* State<Game>: "Playing" or "Finished"
    next_state,       \* NextState<Game>: "Unchanged" or the pending state
    active,           \* the entities bearing Active
    holding,          \* per entity: Absent, HoldingNone or the item held
    speed,            \* per entity with Speed: [neg |-> sign bit, mag |-> doubled magnitude]
    progress,         \* per hand: Progress, in steps
    transform,        \* per hand and the item: Transform.translation.xy (local)
    parent,           \* the item's Parent, or NoEntity
    global_transform, \* per Collision entity: GlobalTransform.translation.xy
    events,           \* the GameEvents sent in the last frame, in order
    focus,            \* CameraFocus
    grab_edges        \* the grab edges the grab state machine has seen

vars ==
    << state, next_state, active, holding, speed, progress, transform, parent,
       global_transform, events, focus, grab_edges >>

\* ------------------------------------------------------------------- input
\* What ButtonInput<KeyCode> says of the Space key in a frame.
Keys == [pressed : BOOLEAN, just_pressed : BOOLEAN]

\* read_input copies the key's state into the Grab action's ActionState;
\* ActionInput::just_pressed(Action::Grab) reads it back.
read_input(key) == [pressed |-> key.pressed, just_pressed |-> key.just_pressed]

\* ActionInput::pressed read in place of ActionInput::just_pressed: a key
\* held down is an edge in every frame.
ActionJustPressed_Pressed(action_input) == action_input.pressed

ActionJustPressed(action_input) == action_input.just_pressed

\* ----------------------------------------------------------- overlap index
Intersects(c1, r1, c2, r2) ==
    LET d == Sub(c1, c2)
    IN  d[1] * d[1] + d[2] * d[2] <= (r1 + r2) * (r1 + r2)

\* The index with (e1, e2) pushed for every intersecting combination and
\* (e2, e1) left out: each pair in the order of the placement list only.
system_check_overlap_OneWay(gt) ==
    { pr \in HasCollision \X HasCollision :
        /\ PlaceX2[pr[1]] < PlaceX2[pr[2]]
        /\ Intersects(gt[pr[1]], CollisionRadius(pr[1]), gt[pr[2]], CollisionRadius(pr[2])) }

\* Every combination of two Collision entities whose circles intersect, in
\* both orders.  The index is rebuilt at the start of every frame, before
\* anything reads it, so it is a value of the frame and not a variable.
system_check_overlap(gt) ==
    { pr \in HasCollision \X HasCollision :
        /\ pr[1] # pr[2]
        /\ Intersects(gt[pr[1]], CollisionRadius(pr[1]), gt[pr[2]], CollisionRadius(pr[2])) }

\* Overlap::with
With(ov, entity) == { e \in HasCollision : << entity, e >> \in ov }

\* ---------------------------------------------------- progress integrator
Signum(s) == IF s.neg THEN -1 ELSE 1
Value2(s) == Signum(s) * s.mag

\* if progress > 1 then progress - progress.trunc()
Wrap(p) == IF p > Steps THEN p - Steps * (p \div Steps) ELSE p

\* The integrator without the slower speed of an empty hand (the
\* system_progress of main.rs): delta * speed whatever is held.
Increment_NoSlowdown(h, dt) == dt * Value2(speed[h])

\* The integrator with the time delta left out of the empty hand's rate:
\* 0.5 * signum(speed) a frame.
Increment_EmptyWithoutDelta(h, dt) ==
    IF holding[h] \in Item THEN dt * Value2(speed[h]) ELSE Signum(speed[h])

\* The increment of one frame: delta * speed when holding an item, else
\* delta * 0.5 * signum(speed).
Increment(h, dt) ==
    IF holding[h] \in Item THEN dt * Value2(speed[h]) ELSE dt * Signum(speed[h])

\* The integrator without the With<Active> filter: every entity with
\* Progress and Speed advances.
system_progress_Everyone(dt) ==
    [h \in HasProgress |->
        IF h \in HasSpeed
        THEN Wrap(progress[h] + Increment(h, dt))
        ELSE progress[h]]

system_progress(dt) ==
    [h \in HasProgress |->
        IF h \in active /\ h \in HasSpeed
        THEN Wrap(progress[h] + Increment(h, dt))
        ELSE progress[h]]

\* ------------------------------------------------------ placement resolver
HandOffset(p) ==
    << RoundDiv(Cos(p) * CycleRadius, 1000), RoundDiv(Sin(p) * CycleRadius, 1000) >>

\* The hands' translation from the Progress values prog; the item's
\* translation is left as it is.
system_cycle_hand(prog, tf) ==
    [e \in DOMAIN tf |-> IF e \in Hands THEN HandOffset(prog[e]) ELSE tf[e]]

\* translation.lerp(ZERO, 0.03), rounded to the nearest point of the grid.
Lerp(v) ==
    << RoundDiv(v[1] * (100 - LERP_PERCENT), 100), RoundDiv(v[2] * (100 - LERP_PERCENT), 100) >>

HoldingEntities == { e \in Entities : holding[e] # Absent }

\* Query<&Holding>::get_single must yield Holding(Some(item)).
system_lerp_item_to_holding(tf) ==
    IF /\ Cardinality(HoldingEntities) = 1
       /\ \E e \in HoldingEntities : holding[e] \in Item
    THEN [tf EXCEPT ![ItemE] = Lerp(tf[ItemE])]
    ELSE tf

\* The world position of a hand's parent Cycle.
CyclePos(h) == PlacePos(h)

\* Transform propagation (PostUpdate): GlobalTransform from Transform and Parent.
Propagate(tf, par) ==
    LET base == [e \in HasCollision |->
                    CASE e \in Hands -> Add(CyclePos(e), tf[e])
                      [] e = FinishE -> PlacePos(e)
                      [] e = ItemE -> tf[e]]
    IN  [base EXCEPT ![ItemE] = IF par # NoEntity THEN Add(base[par], tf[ItemE]) ELSE tf[ItemE]]

\* ------------------------------------------------------- focus and finish
\* on_add_active without the look at the Parent: the focus goes to the
\* entity's own GlobalTransform.
on_add_active_OwnPosition(e, gt) == gt[e]

\* Observer on OnAdd Active: the focus goes to the parent's GlobalTransform
\* when the entity has a Parent (a hand's Cycle), else to the entity's own.
on_add_active(e, gt) == IF e \in Hands THEN CyclePos(e) ELSE gt[e]

\* on_finish without the query for Finish: any entity that gets Active ends
\* the game.
on_finish_AnyEntity(e, ns) == "Finished"

\* on_finish that never sets NextState.
on_finish_Never(e, ns) == ns

\* Observer on OnAdd Active: NextState is set when the entity bears Finish.
on_finish(e, ns) == IF e \in Finish THEN "Finished" ELSE ns

\* ------------------------------------------------------ grab state machine
\* What the commands of one run of system_grab_toggle leave behind.
Outcome(act, hold, spd, par, item_tf, evs, ns, fc) ==
    [active |-> act, holding |-> hold, speed |-> spd, parent |-> par,
     item_transform |-> item_tf, events |-> evs, next_state |-> ns, focus |-> fc]

NoChange(tf) ==
    Outcome(active, holding, speed, parent, tf[ItemE], << >>, "Unchanged", focus)

\* Query<.., (With<CanHold>, With<Active>)> with &Speed
ActiveQuery == { e \in active : e \in CanHold /\ e \in HasSpeed }

\* The hand_overs query without With<CanHold>: anything that is not Active
\* can receive.
HandOverQuery_AnyEntity == { e \in Entities : e \notin active }

\* Query<.., (With<CanHold>, Without<Active>)>
HandOverQuery == { e \in CanHold : e \notin active }

\* The receiver searched among the entities overlapping the item held
\* (overlap.with(*item)) instead of those overlapping the active entity.
Receivers_OfItem(ov, entity, item) == { e \in With(ov, item) : e \in HandOverQuery }

\* The entities find_map can return: those overlapping the active entity
\* that the hand_overs query matches.
Receivers(ov, entity, item) == { e \in With(ov, entity) : e \in HandOverQuery }

\* Speed(speed.abs() * -speed_other.signum()): the operands taken the wrong
\* way round, the receiver gets the giver's magnitude.
Retarget_GiverMagnitude(speed_other, speed_giver) ==
    [neg |-> ~speed_other.neg, mag |-> speed_giver.mag]

\* Speed(speed_other.abs() * speed.signum()): the receiver turns the way
\* the giver does.
Retarget_SameWay(speed_other, speed_giver) == [neg |-> speed_giver.neg, mag |-> speed_other.mag]

\* Speed(speed_other.abs() * -speed.signum())
Retarget(speed_other, speed_giver) == [neg |-> ~speed_giver.neg, mag |-> speed_other.mag]

\* HandOver without remove::<Holding>() on the giver.
HandOver_GiverKeepsHolding(entity, item, other, gt) ==
    Outcome((active \cup {other}) \ {entity},
            [holding EXCEPT ![other] = item],
            IF other \in HasSpeed
            THEN [speed EXCEPT ![other] = Retarget(speed[other], speed[entity])]
            ELSE speed,
            other,
            Sub(gt[item], gt[other]),
            << "HandOver" >>,
            on_finish(other, "Unchanged"),
            on_add_active(other, gt))

\* HandOver that moves the item and leaves Active where it is.
HandOver_ActiveStays(entity, item, other, gt) ==
    Outcome(active,
            [holding EXCEPT ![other] = item, ![entity] = Absent],
            IF other \in HasSpeed
            THEN [speed EXCEPT ![other] = Retarget(speed[other], speed[entity])]
            ELSE speed,
            other,
            Sub(gt[item], gt[other]),
            << "HandOver" >>,
            "Unchanged",
            focus)

\* HandOver without remove::<Active>() on the giver.
HandOver_GiverStaysActive(entity, item, other, gt) ==
    Outcome(active \cup {other},
            [holding EXCEPT ![other] = item, ![entity] = Absent],
            IF other \in HasSpeed
            THEN [speed EXCEPT ![other] = Retarget(speed[other], speed[entity])]
            ELSE speed,
            other,
            Sub(gt[item], gt[other]),
            << "HandOver" >>,
            on_finish(other, "Unchanged"),
            on_add_active(other, gt))

HandOver(entity, item, other, gt) ==
    Outcome((active \cup {other}) \ {entity},
            [holding EXCEPT ![other] = item, ![entity] = Absent],
            IF other \in HasSpeed
            THEN [speed EXCEPT ![other] = Retarget(speed[other], speed[entity])]
            ELSE speed,
            other,
            Sub(gt[item], gt[other]),
            << "HandOver" >>,
            on_finish(other, "Unchanged"),
            on_add_active(other, gt))

\* DropItem with remove_parent() in place of remove_parent_in_place(): the
\* item keeps its local translation.
DropItem_NotInPlace(entity, item, gt) ==
    Outcome(active, [holding EXCEPT ![entity] = Absent], speed, NoEntity,
            transform[item], << "Drop" >>, "Unchanged", focus)

\* DropItem without event_writer.send(GameEvent::Drop).
DropItem_Silent(entity, item, gt) ==
    Outcome(active, [holding EXCEPT ![entity] = Absent], speed, NoEntity,
            gt[item], << >>, "Unchanged", focus)

\* DropItem without remove_parent_in_place().
DropItem_KeepsParent(entity, item, gt) ==
    Outcome(active, [holding EXCEPT ![entity] = Absent], speed, parent,
            transform[item], << "Drop" >>, "Unchanged", focus)

DropItem(entity, item, gt) ==
    Outcome(active, [holding EXCEPT ![entity] = Absent], speed, NoEntity,
            gt[item], << "Drop" >>, "Unchanged", focus)

\* Reopen that sends the event of a drop.
Reopen_SendsDrop(entity, tf) ==
    Outcome(active, [holding EXCEPT ![entity] = Absent], speed, parent,
            tf[ItemE], << "Drop" >>, "Unchanged", focus)

Reopen(entity, tf) ==
    Outcome(active, [holding EXCEPT ![entity] = Absent], speed, parent,
            tf[ItemE], << >>, "Unchanged", focus)

\* GrabItem without set_parent_in_place().
GrabItem_NoReparent(entity, item, gt) ==
    Outcome(active, [holding EXCEPT ![entity] = item], speed, parent,
            transform[item], << "Grab" >>, "Unchanged", focus)

GrabItem(entity, item, gt) ==
    Outcome(active, [holding EXCEPT ![entity] = item], speed, entity,
            Sub(gt[item], gt[entity]), << "Grab" >>, "Unchanged", focus)

\* GrabNothing that closes the hand without recording it.
GrabNothing_NoHolding(entity, tf) ==
    Outcome(active, holding, speed, parent,
            tf[ItemE], << "GrabEmpty" >>, "Unchanged", focus)

GrabNothing(entity, tf) ==
    Outcome(active, [holding EXCEPT ![entity] = HoldingNone], speed, parent,
            tf[ItemE], << "GrabEmpty" >>, "Unchanged", focus)

\* The outcomes of system_grab_toggle with the overlap index ov, the
\* GlobalTransforms gt (of the last propagation) and the Transforms tf.
\* Where the code takes the first match of an iteration, any match is an
\* outcome.
system_grab_toggle(action_input, ov, gt, tf) ==
    IF ~ActionJustPressed(action_input) THEN { NoChange(tf) }
    ELSE IF Cardinality(ActiveQuery) # 1 THEN { NoChange(tf) }
    ELSE LET entity == CHOOSE e \in ActiveQuery : TRUE
         IN  CASE holding[entity] \in Item ->
                    IF Receivers(ov, entity, holding[entity]) # {}
                    THEN { HandOver(entity, holding[entity], other, gt) :
                              other \in Receivers(ov, entity, holding[entity]) }
                    ELSE { DropItem(entity, holding[entity], gt) }
               [] holding[entity] = HoldingNone -> { Reopen(entity, tf) }
               [] OTHER ->
                    IF With(ov, entity) \cap Item # {}
                    THEN { GrabItem(entity, item, gt) : item \in With(ov, entity) \cap Item }
                    ELSE { GrabNothing(entity, tf) }

\* -------------------------------------------------------------- one frame
\* A state that lasts one frame only: without a pending NextState the phase
\* falls back to Playing.
StateTransition_OneFrame == IF next_state # "Unchanged" THEN next_state ELSE "Playing"

\* StateTransition: the pending NextState becomes the State.
StateTransition == IF next_state # "Unchanged" THEN next_state ELSE state

\* The run condition in_state(Game::Playing) of this frame.
Playing == StateTransition = "Playing"

\* A hand spawned on its orbit, at the place of its Progress.
HandTranslation_OnOrbit == << RoundDiv(Cos(Steps \div 2) * CycleRadius, 1000),
                             RoundDiv(Sin(Steps \div 2) * CycleRadius, 1000) >>

\* Transform::from_xyz(0., 0., 2.) of HandBundle::new: a hand is spawned at
\* the centre of its Cycle.
HandTranslation == Zero

Init ==
    /\ state = "Playing"
    /\ next_state = "Unchanged"
    /\ active = {CycleStart}
    /\ holding = [e \in Entities |-> Absent]
    /\ speed = [e \in HasSpeed |-> [neg |-> FALSE, mag |-> PlaceSpeed2[e]]]
    /\ progress = [h \in HasProgress |-> Steps \div 2]
    /\ transform = [e \in Hands \cup {ItemE} |-> IF e = ItemE THEN PlacePos(e) ELSE HandTranslation]
    /\ parent = NoEntity
    /\ global_transform = Propagate(transform, parent)
    /\ events = << >>
    /\ focus = Zero
    /\ grab_edges = 0

\* One frame: PreUpdate (read_input, system_check_overlap), StateTransition,
\* Update (the systems, system_cycle_hand before or after system_progress,
\* then the commands of system_grab_toggle and the observers they trigger).
\* The states a frame can end in, before the transform propagation of
\* PostUpdate.
FrameEnds(key, dt, placement_first) ==
    LET action_input == read_input(key)
        ov == system_check_overlap(global_transform)
        prog == IF Playing THEN system_progress(dt) ELSE progress
        placed == IF Playing
                  THEN system_cycle_hand(IF placement_first THEN progress ELSE prog, transform)
                  ELSE transform
        tf == system_lerp_item_to_holding(placed)
    IN  { [state |-> StateTransition,
           progress |-> prog,
           active |-> out.active,
           holding |-> out.holding,
           speed |-> out.speed,
           parent |-> out.parent,
           transform |-> [tf EXCEPT ![ItemE] = out.item_transform],
           events |-> out.events,
           focus |-> out.focus,
           next_state |-> out.next_state] :
          out \in (IF Playing
                   THEN system_grab_toggle(action_input, ov, global_transform, tf)
                   ELSE { NoChange(tf) }) }

\* A frame, PostUpdate (transform propagation) included.
Tick(key, dt, placement_first) ==
    LET edge == Playing /\ ActionJustPressed(read_input(key))
    IN  /\ edge => grab_edges < MaxGrabs
        /\ grab_edges' = IF edge THEN grab_edges + 1 ELSE grab_edges
        /\ \E end \in FrameEnds(key, dt, placement_first) :
            /\ \A h \in HasProgress : end.progress[h] >= -MaxNeg
            /\ state' = end.state
            /\ progress' = end.progress
            /\ active' = end.active
            /\ holding' = end.holding
            /\ speed' = end.speed
            /\ parent' = end.parent
            /\ transform' = end.transform
            /\ events' = end.events
            /\ focus' = end.focus
            /\ next_state' = end.next_state
            /\ global_transform' = Propagate(transform', parent')

Next == \E key \in Keys, dt \in 0 .. MaxDt, placement_first \in BOOLEAN :
            Tick(key, dt, placement_first)

Spec == Init /\ [][Next]_vars

\* ================================================================= claims
\* The overlap index of the frame that starts in the current state.
Overlaps == system_check_overlap(global_transform)

\* The step is a frame of the Playing state in which Grab is just pressed:
\* the only steps that count a grab edge.
GrabEdge == grab_edges' = grab_edges + 1

\* The step is a frame in which the grab state machine sees no grab edge.
NoGrabEdge == grab_edges' = grab_edges

HoldsItem(e) == holding[e] \notin {Absent, HoldingNone}

\* C1: after every frame exactly one entity bears Active.
C1_ExactlyOneActive == Cardinality(active) = 1

\* a hand-over has moved Active from the start hand to its neighbour
C1_Witness ==
    /\ events = << "HandOver" >>
    /\ active = {"hand2"}
    /\ CycleStart \notin active

\* C2: after every frame some entity bears Holding(Some(item)) iff the item
\* has a parent, and then the parent is that entity.
C2_HolderIsParent ==
    /\ (\E e \in Entities : HoldsItem(e)) <=> parent # NoEntity
    /\ \A e \in Entities : HoldsItem(e) => parent = e

\* the item was picked up, handed over and then dropped by the receiver
C2_Witness ==
    /\ events = << "Drop" >>
    /\ parent = NoEntity
    /\ active = {"hand2"}
    /\ \A e \in Entities : ~HoldsItem(e)

\* C3: an entity bearing Holding(Some(i)) bears CanHold and Active, i bears
\* Item, and i's parent is that entity.
C3_HolderWellFormed ==
    \A e \in Entities :
        HoldsItem(e) =>
            /\ e \in CanHold
            /\ e \in active
            /\ holding[e] \in Item
            /\ parent = e

\* the start hand holds the item after a Grab
C3_Witness ==
    /\ events = << "Grab" >>
    /\ holding[CycleStart] = ItemE
    /\ parent = CycleStart

\* C4: after every frame every Progress p satisfies 0 <= p < 1.
C4_ProgressInUnitInterval ==
    \A h \in HasProgress : 0 <= progress[h] /\ progress[h] < Steps

\* The entities overlapping e that could receive the item.
CanReceive(e) == { o \in With(Overlaps, e) : o \in CanHold /\ o \notin active }

\* C5: hand-over.  On a grab edge while the Active entity A holds the item I
\* and some entity overlapping A bears CanHold and not Active, one such
\* entity O becomes the only Active entity and holds I, I's parent goes from
\* A to O, A loses Active and Holding, and HandOver is sent.
C5_HandOver ==
    [][\A A \in active :
          (GrabEdge /\ HoldsItem(A) /\ CanReceive(A) # {}) =>
              \E O \in CanReceive(A) :
                  /\ active' = {O}
                  /\ holding'[O] = holding[A]
                  /\ parent = A
                  /\ parent' = O
                  /\ holding'[A] = Absent
                  /\ events' = << "HandOver" >>]_vars

\* the second hand has handed the item over to the third
C5_Witness ==
    /\ events = << "HandOver" >>
    /\ active = {"hand3"}
    /\ parent = "hand3"
    /\ holding["hand3"] = ItemE
    /\ holding["hand2"] = Absent

\* C6: pickup.  On a grab edge while the Active entity A bears no Holding:
\* with an item overlapping A, the item is reparented to A, A holds it and
\* Grab is sent; without one, A gets Holding(None) and GrabEmpty is sent.
\* A stays Active.
C6_Pickup ==
    [][\A A \in active :
          (GrabEdge /\ holding[A] = Absent) =>
              /\ active' = active
              /\ IF With(Overlaps, A) \cap Item # {}
                 THEN /\ holding'[A] \in With(Overlaps, A) \cap Item
                      /\ parent' = A
                      /\ events' = << "Grab" >>
                 ELSE /\ holding'[A] = HoldingNone
                      /\ parent' = parent
                      /\ events' = << "GrabEmpty" >>]_vars

\* a hand that had dropped the item elsewhere closes on nothing
C6_Witness ==
    /\ events = << "GrabEmpty" >>
    /\ holding[CycleStart] = HoldingNone
    /\ active = {CycleStart}
    /\ global_transform[ItemE] # PlacePos(ItemE)

\* C7: drop.  On a grab edge while the Active entity A holds the item I and
\* nothing overlapping A can receive it, I is unparented and keeps its
\* world position, A loses Holding and stays Active, nothing holds the item
\* and Drop is sent.
C7_Drop ==
    [][\A A \in active :
          (GrabEdge /\ HoldsItem(A) /\ CanReceive(A) = {}) =>
              /\ parent' = NoEntity
              /\ global_transform'[holding[A]] = global_transform[holding[A]]
              /\ holding'[A] = Absent
              /\ active' = active
              /\ \A e \in Entities : ~HoldsItem(e)'
              /\ events' = << "Drop" >>]_vars

\* the item lies where the start hand carried it
C7_Witness ==
    /\ events = << "Drop" >>
    /\ parent = NoEntity
    /\ active = {CycleStart}
    /\ holding[CycleStart] = Absent
    /\ global_transform[ItemE] # PlacePos(ItemE)

\* C8: grab round trip.  From no Holding and no item in overlap a grab edge
\* gives Holding(None) and sends GrabEmpty; frames without a grab edge keep
\* Holding(None); the next grab edge, whatever overlaps, removes Holding and
\* sends nothing.  Active and the item's parent stay as they were.
C8_GrabRoundTrip ==
    [][\A A \in active :
          /\ (GrabEdge /\ holding[A] = Absent
                /\ With(Overlaps, A) \cap Item = {}) =>
                  /\ holding'[A] = HoldingNone
                  /\ events' = << "GrabEmpty" >>
                  /\ active' = active
                  /\ parent' = parent
          /\ (NoGrabEdge /\ holding[A] = HoldingNone) =>
                  /\ holding'[A] = HoldingNone
                  /\ active' = active
                  /\ parent' = parent
          /\ (GrabEdge /\ holding[A] = HoldingNone) =>
                  /\ holding'[A] = Absent
                  /\ events' = << >>
                  /\ active' = active
                  /\ parent' = parent]_vars

\* two grab edges, the second over the item, and the hand is open again
C8_Witness ==
    /\ grab_edges = 2
    /\ events = << >>
    /\ holding[CycleStart] = Absent
    /\ active = {CycleStart}
    /\ parent = NoEntity
    /\ ItemE \in With(Overlaps, CycleStart)
    /\ global_transform[ItemE] = PlacePos(ItemE)

\* The step runs neither the progress integrator nor the grab state machine.
Frozen ==
    /\ progress' = progress
    /\ grab_edges' = grab_edges
    /\ active' = active
    /\ holding' = holding
    /\ parent' = parent
    /\ speed' = speed
    /\ events' = << >>

\* C9: finish.  A step that adds Active to an entity bearing Finish sets the
\* pending state Finished, a step that adds Active to another entity leaves
\* the state alone, and once Finished is pending or current no frame runs
\* the progress integrator or the grab state machine.
C9_FinishTransition ==
    [][/\ \A e \in active' \ active :
            IF e \in Finish
            THEN state = "Playing" /\ next_state' = "Finished"
            ELSE state' = "Playing" /\ next_state' = "Unchanged"
       /\ (next_state = "Finished" \/ state = "Finished") =>
            (state' = "Finished" /\ Frozen)]_vars

\* the item has just been handed to the Finish entity
C9_Witness ==
    /\ events = << "HandOver" >>
    /\ active = {FinishE}
    /\ state = "Playing"
    /\ next_state = "Finished"

\* C10: Finished is frozen and absorbing.  From Finished every frame leaves
\* the state Finished and every Progress, hand position, Active, Holding,
\* the item's parent and every Speed as they were, and sends no event.
C10_FinishedFrozen ==
    [][state = "Finished" =>
          /\ state' = "Finished"
          /\ \A h \in Hands : transform'[h] = transform[h]
          /\ Frozen]_vars

\* the game is over with the item at the Finish entity
C10_Witness ==
    /\ state = "Finished"
    /\ next_state = "Unchanged"
    /\ active = {FinishE}
    /\ holding[FinishE] = ItemE
    /\ events = << >>

\* C11: miss scenario.  A grab edge in the very first frame (every Progress
\* at 0.5, nothing advanced yet) finds no item in the overlap index for the
\* Active hand: the hand gets Holding(None), the item keeps no parent and the
\* event sent is GrabEmpty.
C11_FirstGrabMisses ==
    [][(Init /\ GrabEdge) =>
          /\ With(Overlaps, CycleStart) \cap Item = {}
          /\ holding'[CycleStart] = HoldingNone
          /\ parent' = NoEntity
          /\ active' = {CycleStart}
          /\ events' = << "GrabEmpty" >>]_vars

\* the first grab edge closed the start hand on nothing, the item where it
\* was spawned
C11_Witness ==
    /\ grab_edges = 1
    /\ events = << "GrabEmpty" >>
    /\ holding[CycleStart] = HoldingNone
    /\ progress[CycleStart] = Steps \div 2
    /\ transform[ItemE] = PlacePos(ItemE)
    /\ parent = NoEntity

\* The step is a hand-over from A to O.
HandsOver(A, O) ==
    /\ events' = << "HandOver" >>
    /\ A \in active
    /\ O \in active' \ active

\* C12: speed retargeting.  A hand-over from A to a receiver O that has a
\* Speed leaves O with the Speed |s_O| * -sign(s_A) and every other Speed,
\* the giver's included, as it was; the first hand-over of the placement
\* (giver at 0.5, receiver at 1.0) leaves the receiver at -1.0.
C12_SpeedRetarget ==
    [][\A A, O \in Entities :
          HandsOver(A, O) =>
              /\ O \in HasSpeed =>
                    Value2(speed'[O]) = speed[O].mag * (-Signum(speed[A]))
              /\ \A e \in HasSpeed \ {O} : speed'[e] = speed[e]
              /\ (\A e \in HasSpeed : ~speed[e].neg) =>
                    /\ A = CycleStart
                    /\ Value2(speed[A]) = 1
                    /\ O = "hand2"
                    /\ Value2(speed[O]) = 2
                    /\ Value2(speed'[O]) = -2]_vars

\* the first hand-over has turned the second hand to -1.0
C12_Witness ==
    /\ events = << "HandOver" >>
    /\ active = {"hand2"}
    /\ Value2(speed["hand2"]) = -2
    /\ Value2(speed[CycleStart]) = 1
    /\ \A e \in HasSpeed \ {"hand2"} : ~speed[e].neg

\* The step is a frame whose time delta is dt.
FrameOf(dt) == \E key \in Keys, placement_first \in BOOLEAN : Tick(key, dt, placement_first)

\* The step takes h's Progress from p to p + x, less the whole turns taken
\* off a Progress above 1.
Advanced(h, x) ==
    LET q == progress[h] + x
    IN  \/ progress'[h] = q
        \/ /\ q > Steps
           /\ (q - progress'[h]) % Steps = 0
           /\ progress'[h] \in 0 .. Steps - 1

\* C13: integration rate.  A Playing frame of time delta dt advances the
\* Active entity's Progress by s * dt when it bears Holding(Some(_)) and by
\* 0.5 * sign(s) * dt when it bears Holding(None) or no Holding, and leaves
\* every other Progress alone; the frame after a Grab runs at the rate s.
C13_IntegrationRate ==
    [][\A dt \in 0 .. MaxDt :
          (Playing /\ FrameOf(dt)) =>
              \A h \in HasProgress :
                  /\ (h \in active /\ HoldsItem(h)) => Advanced(h, Value2(speed[h]) * dt)
                  /\ (h \in active /\ holding[h] \in {Absent, HoldingNone}) =>
                        Advanced(h, Signum(speed[h]) * dt)
                  /\ (h \in active /\ events = << "Grab" >>) =>
                        Advanced(h, Value2(speed[h]) * dt)
                  /\ h \notin active => progress'[h] = progress[h]]_vars

\* the second hand, empty after a drop, has gone below 0 at the slow rate
\* while the start hand stood still
C13_Witness ==
    /\ active = {"hand2"}
    /\ holding["hand2"] \in {Absent, HoldingNone}
    /\ progress["hand2"] < 0
    /\ progress[CycleStart] # Steps \div 2
    /\ state = "Playing"

\* C14: empty-hand slowdown.  In a Playing frame the Progress change of an
\* Active hand that is empty (no Holding, or Holding(None)) is half the
\* change s * dt the hand gets while holding an item, whole turns apart.
C14_EmptyIsHalfSpeed ==
    [][\A dt \in 0 .. MaxDt :
          (Playing /\ FrameOf(dt)) =>
              \A h \in active \cap Hands :
                  holding[h] \in {Absent, HoldingNone} =>
                      (2 * (progress'[h] - progress[h]) - Value2(speed[h]) * dt)
                          % (2 * Steps) = 0]_vars

\* C15: idempotence at dt = 0.  A frame whose time delta is 0 leaves every
\* Progress as it was, whatever the state, the Holding and the Speed of the
\* Active entity, a Progress of 1 or below 0 included.
C15_ZeroDeltaKeepsProgress ==
    [][FrameOf(0) => progress' = progress]_vars

\* the second hand has picked the item up again where it dropped it, at a
\* Progress below 0: the frame of that Grab had a time delta of 0
C15_Witness ==
    /\ events = << "Grab" >>
    /\ active = {"hand2"}
    /\ HoldsItem("hand2")
    /\ progress["hand2"] = -MaxNeg
    /\ speed["hand2"].neg

\* C16: the overlap index, whenever it is rebuilt, is symmetric (f is in
\* overlaps(e) iff e is in overlaps(f)) and irreflexive, and holds entities
\* bearing Collision only.
C16_OverlapSymmetric ==
    LET ov == Overlaps
    IN  /\ \A e, f \in Entities : f \in With(ov, e) <=> e \in With(ov, f)
        /\ \A e \in Entities : e \notin With(ov, e)
        /\ \A pr \in ov : pr[1] \in HasCollision /\ pr[2] \in HasCollision

\* the second hand, the item in it, meets the third hand
C16_Witness ==
    /\ "hand3" \in With(Overlaps, "hand2")
    /\ ItemE \in With(Overlaps, "hand2")
    /\ holding["hand2"] = ItemE
    /\ "hand1" \notin With(Overlaps, "hand2")

\* C17: determinism.  From a state, a time delta and a grab edge a frame
\* has exactly one end state, whichever receiver the search meets first and
\* whichever order the systems of the frame run in.
C17_Determinism ==
    \A dt \in 0 .. MaxDt, grab_edge \in BOOLEAN :
        Cardinality(UNION { FrameEnds(key, dt, placement_first) :
                               key \in { k \in Keys : k.just_pressed = grab_edge },
                               placement_first \in BOOLEAN }) = 1

\* C18: no grab edge, no change.  A frame in which Grab is not just pressed,
\* the key held down or not, leaves Active, every Holding, the item's parent
\* and every Speed as they were and sends no event.
C18_NoEdgeNoChange ==
    [][\A key \in { k \in Keys : ~k.just_pressed } :
          (\E dt \in 0 .. MaxDt, placement_first \in BOOLEAN : Tick(key, dt, placement_first)) =>
              /\ active' = active
              /\ holding' = holding
              /\ parent' = parent
              /\ speed' = speed
              /\ events' = << >>]_vars

\* the second hand carries the item, and the last frame sent no event: it
\* was a frame without a grab edge
C18_Witness ==
    /\ events = << >>
    /\ active = {"hand2"}
    /\ holding["hand2"] = ItemE
    /\ progress["hand2"] # Steps \div 2
    /\ state = "Playing"

\* C19: hand placement.  After every Playing frame each hand's position
\* relative to its Cycle is (cos(2 pi p), sin(2 pi p)) * radius for the
\* Progress p the hand has at the end of that frame: a point of the orbit,
\* and never the point of the Progress before the frame.
C19_PlacementFollowsProgress ==
    [][Playing => \A h \in Hands : transform'[h] = HandOffset(progress'[h])]_vars

\* C20: the game ends only with the item at the Finish.  Whenever the state
\* is Finished the entity bearing Finish is the Active entity, it bears
\* Holding(Some(item)) and it is the item's parent; and Finished is reached
\* from the startup placement (the witness).
C20_FinishedAtFinish ==
    state = "Finished" =>
        /\ active = Finish
        /\ \A f \in Finish : holding[f] \in Item /\ parent = f

\* Finished, reached by a frame run of the startup placement: the item
\* hangs on the Finish entity and the fourth hand has let go of it
C20_Witness ==
    /\ state = "Finished"
    /\ parent = FinishE
    /\ holding[FinishE] = ItemE
    /\ holding["hand4"] = Absent
    /\ "hand4" \notin active
    /\ FinishE \in With(Overlaps, "hand4")

\* C21: the integrator changes the Active entity only.  In every frame the
\* Progress of every entity that is not Active when the frame starts is
\* left as it was: a hand that waits keeps its phase, and so does a hand
\* that has given the item away.
C21_OnlyActiveProgresses ==
    [][\A h \in HasProgress : h \notin active => progress'[h] = progress[h]]_vars

\* the third hand is under way; the second stands where it handed over, the
\* fourth where it was spawned
C21_Witness ==
    /\ active = {"hand3"}
    /\ progress["hand3"] # Steps \div 2
    /\ progress["hand2"] = 0
    /\ progress["hand4"] = Steps \div 2
    /\ events = << >>

\* The event the grab transition of the Active entity A sends.
EventOf(A) ==
    CASE HoldsItem(A) ->
            IF CanReceive(A) # {} THEN << "HandOver" >> ELSE << "Drop" >>
      [] holding[A] = HoldingNone -> << >>
      [] OTHER ->
            IF With(Overlaps, A) \cap Item # {} THEN << "Grab" >> ELSE << "GrabEmpty" >>

\* C22: events.  A frame sends at most one event, and it is the event of
\* the grab transition taken: Grab or GrabEmpty from no Holding, with or
\* without an item in overlap, HandOver or Drop from Holding(Some), with or
\* without a receiver, none from Holding(None), and none in a frame without
\* a grab edge.
C22_EventOfTransition ==
    [][/\ Len(events') <= 1
       /\ \A i \in 1 .. Len(events') : events'[i] \in Events
       /\ NoGrabEdge => events' = << >>
       /\ GrabEdge => \A A \in active : events' = EventOf(A)]_vars

\* the second hand has dropped the item and picked it up again
C22_Witness ==
    /\ events = << "Grab" >>
    /\ active = {"hand2"}
    /\ holding["hand2"] = ItemE
    /\ grab_edges = 4

\* C23: Active moves by hand-over only.  Over a frame the set of Active
\* entities changes iff the frame sends HandOver; Grab, GrabEmpty, Drop and
\* the silent re-opening leave it as it was.
C23_ActiveMovesByHandOver ==
    [][(active' # active) <=> (events' = << "HandOver" >>)]_vars

\* the third hand has dropped the item and is still the Active one
C23_Witness ==
    /\ events = << "Drop" >>
    /\ active = {"hand3"}
    /\ holding["hand3"] = Absent
    /\ parent = NoEntity

\* C24: the Active entity bears CanHold.  In every state exactly one entity
\* matches the query of the grab state machine (CanHold, Active, Speed) and
\* it is the Active entity, never the item; so no grab edge of a Playing
\* frame is dropped: each one changes the Holding of some entity.
C24_ActiveCanHold ==
    /\ [](/\ active \subseteq CanHold
          /\ active \cap Item = {}
          /\ ActiveQuery = active
          /\ Cardinality(ActiveQuery) = 1)
    /\ [][GrabEdge => holding' # holding]_vars

\* the fourth hand, Active by a hand-over, is matched by the query
C24_Witness ==
    /\ events = << "HandOver" >>
    /\ active = {"hand4"}
    /\ ActiveQuery = {"hand4"}
    /\ holding["hand4"] = ItemE

\* C25: at most one Holding.  In every state at most one entity bears a
\* Holding component, Holding(Some) or Holding(None), and that entity is
\* Active.
C25_AtMostOneHolding ==
    /\ Cardinality(HoldingEntities) <= 1
    /\ HoldingEntities \subseteq active

\* the third hand has closed on nothing, and no other entity bears Holding
C25_Witness ==
    /\ holding["hand3"] = HoldingNone
    /\ active = {"hand3"}
    /\ HoldingEntities = {"hand3"}
    /\ events = << "GrabEmpty" >>

\* C26: speed magnitudes.  In every state the absolute value of every Speed
\* is the one of the startup placement; a Speed changes in a frame that
\* sends HandOver only, and then only the receiver's, in its sign.
C26_SpeedMagnitudes ==
    /\ [](\A e \in HasSpeed : speed[e].mag = PlaceSpeed2[e])
    /\ [][\A e \in HasSpeed :
             speed'[e] # speed[e] =>
                 /\ events' = << "HandOver" >>
                 /\ e \in active' \ active
                 /\ speed'[e].mag = speed[e].mag]_vars

\* the fourth hand, turned backwards by a hand-over, at its startup
\* magnitude 2.0
C26_Witness ==
    /\ active = {"hand4"}
    /\ speed["hand4"] = [neg |-> TRUE, mag |-> 4]
    /\ speed["hand3"] = [neg |-> FALSE, mag |-> 3]
    /\ speed["hand2"] = [neg |-> TRUE, mag |-> 2]
    /\ speed[CycleStart] = [neg |-> FALSE, mag |-> 1]

\* C27: camera focus.  A frame that adds Active to an entity E sets the
\* focus to the world position of E's parent when E has one (a hand's
\* Cycle) and to E's own world position when it has none (the Finish
\* entity); a frame that adds Active to nothing leaves the focus alone.
C27_CameraFocus ==
    [][/\ \A E \in active' \ active :
             focus' = IF E \in Hands THEN CyclePos(E) ELSE global_transform[E]
       /\ active' \ active = {} => focus' = focus]_vars

\* the focus is on the Finish entity, which has no parent
C27_Witness ==
    /\ active = {FinishE}
    /\ focus = global_transform[FinishE]
    /\ focus # CyclePos("hand4")
    /\ focus # global_transform["hand4"]

\* The startup placement with Active on no entity or on two in place of the
\* start hand: the worlds in which the query of the grab state machine does
\* not yield a single entity.  No frame run of the startup placement
\* reaches them (C1, C24).
InitAnyActive ==
    /\ state = "Playing"
    /\ next_state = "Unchanged"
    /\ active \in { S \in SUBSET CanHold : Cardinality(S) \in {0, 2} }
    /\ holding = [e \in Entities |-> Absent]
    /\ speed = [e \in HasSpeed |-> [neg |-> FALSE, mag |-> PlaceSpeed2[e]]]
    /\ progress = [h \in HasProgress |-> Steps \div 2]
    /\ transform = [e \in Hands \cup {ItemE} |-> IF e = ItemE THEN PlacePos(e) ELSE HandTranslation]
    /\ parent = NoEntity
    /\ global_transform = Propagate(transform, parent)
    /\ events = << >>
    /\ focus = Zero
    /\ grab_edges = 0

SpecAnyActive == InitAnyActive /\ [][Next]_vars

\* C28: precondition violations fail loudly.  A grab edge of a Playing frame
\* in a state where the query of the grab state machine yields no entity or
\* several makes the state machine fail: no frame with such a grab edge
\* runs to its end with Active, Holding, the item's parent and Speed as they
\* were and no event sent, as after a silent return.
C28_FailsLoudly ==
    [][(GrabEdge /\ Cardinality(ActiveQuery) # 1) =>
          ~(/\ active' = active
            /\ holding' = holding
            /\ parent' = parent
            /\ speed' = speed
            /\ events' = << >>)]_vars

====
